---- MODULE Spec2Model ----
(***************************************************************************)
(* Market Genome: the job pipeline and the chat sessions of                *)
(* market_genome_main.py, with the assistant of brand_ai_assistant.py.     *)
(*                                                                         *)
(* The job registry genome_jobs is a dict of dicts; a dict is modelled as  *)
(* a function from key strings to values, so "key in dict" is              *)
(* "key \in DOMAIN dict".  Texts are sequences of tokens, None is the      *)
(* empty sequence, and an optional value v is <<v>>.                       *)
(***************************************************************************)
EXTENDS Integers, Sequences, FiniteSets, TLC

VARIABLES
    genome_jobs,   \* market_genome_main.genome_jobs: job id -> job dict
    tasks,         \* the analyze_brand_genome coroutine of each job: position and locals
    running,       \* the coroutines that occupy the event loop thread (at most one)
    outbox,        \* the mails handed to EmailService.send_email, in order
    now,           \* the clock read by datetime.now()
    resp,          \* the HTTP response sent by the last step, if it sent one
    chat_sessions, \* market_genome_main.chat_sessions: session id -> session dict
    session_count, \* the number of session ids uuid4 has handed out
    pending,       \* the chat requests received and not yet picked up by the loop
    requests,      \* the number of chat requests received so far
    chat_call,     \* the send_chat_message handler that occupies the loop, if any
    replies,       \* per live session, the number of replies send_chat_message returned
    files          \* the conversations/ directory: path -> exported conversation

\* What the chat side owns.
chat_vars == <<chat_sessions, session_count, pending, requests, chat_call, replies, files>>

vars == <<genome_jobs, tasks, running, outbox, now, resp,
          chat_sessions, session_count, pending, requests, chat_call, replies, files>>

-----------------------------------------------------------------------------
(* Bounds and input sets *)

MaxJobs == 2

JobIds == 1..MaxJobs

\* Identifiers a client may ask about: every possible job id and one more.
QueryIds == 1..(MaxJobs + 1)

\* brand_input form values, as sequences of characters.
Brands == { <<"a", "b">>, <<"a", "c", "m", "e">> }

InputTypes == {"auto", "website"}

Emails == {"user@x.com"}

\* What the SMTP server does with a mail.
SmtpOutcomes == {"sent", "smtp_error"}

\* What the scraped web site does with the request.
ScrapeOutcomes == {"page", "request_error"}

-----------------------------------------------------------------------------
(* Values *)

None == <<>>

Some(v) == <<v>>

\* d[k] = v on a dict, adding the key when it is missing.
Put(d, k, v) == (k :> v) @@ d

\* d.get(k, default)
Get(d, k, default) == IF k \in DOMAIN d THEN d[k] ELSE default

Range(s) == { s[i] : i \in DOMAIN s }

\* models.JobStatus
PENDING == "pending"
PROCESSING == "processing"
COMPLETED == "completed"
FAILED == "failed"

JobStatus == {PENDING, PROCESSING, COMPLETED, FAILED}

-----------------------------------------------------------------------------
(* Positions of analyze_brand_genome: the call the coroutine is in. *)

Stages == <<"collect", "brand_dna", "competitors", "roadmap", "content", "report", "deliver">>

StageNo(p) == CHOOSE k \in DOMAIN Stages : Stages[k] = p

\* The local variable each stage's result is bound to.
StageLocal == <<"brand_data", "brand_dna", "competitor_intel", "growth_roadmap",
                "content_strategy", "pdf_path", "email_sent">>

\* The progress message written before each stage's call.
StageLabel == <<
    <<"Collecting brand data from multiple sources...">>,
    <<"Analyzing brand personality and positioning...">>,
    <<"Analyzing competitor landscape...">>,
    <<"Generating growth strategy...">>,
    <<"Creating content strategy...">>,
    <<"Creating Marketing Genome Report...">>,
    <<"Sending Marketing Genome Report...">> >>

\* The locals bound when the coroutine is in stage k: the results of 1..k-1.
LocalsBefore(k) == { StageLocal[i] : i \in 1..(k - 1) }

\* Positions in which the coroutine is between its first and last statement.
InRun == {"init"} \cup Range(Stages) \cup {"notify"}

\* The coroutine as BackgroundTasks holds it before its first statement.
NewTask == [pc |-> "scheduled", locals |-> {}, brand_data |-> None,
            raised_at |-> "none", e |-> "none"]

\* The coroutine after its last statement: its frame, with the locals, is gone.
EndTask == [NewTask EXCEPT !.pc = "done"]

-----------------------------------------------------------------------------
(* market_genome_engine.MarketGenomeEngine: stage 1 *)

StartsWith(s, p) == Len(s) >= Len(p) /\ SubSeq(s, 1, Len(p)) = p

Contains(s, p) == \E i \in 0..(Len(s) - Len(p)) : SubSeq(s, i + 1, i + Len(p)) = p

Chars_http == <<"h", "t", "t", "p", ":", "/", "/">>
Chars_https == <<"h", "t", "t", "p", "s", ":", "/", "/">>
Chars_www == <<"w", "w", "w", ".">>
Chars_instagram == <<"i", "n", "s", "t", "a", "g", "r", "a", "m">>
Chars_insta == <<"i", "n", "s", "t", "a">>
Chars_twitter == <<"t", "w", "i", "t", "t", "e", "r">>
Chars_xcom == <<"x", ".", "c", "o", "m">>

_detect_input_type(brand_input) ==
    IF \/ StartsWith(brand_input, Chars_http)
       \/ StartsWith(brand_input, Chars_https)
       \/ StartsWith(brand_input, Chars_www)
    THEN "website"
    ELSE IF StartsWith(brand_input, <<"@">>)
    THEN IF Contains(brand_input, Chars_instagram) \/ Contains(brand_input, Chars_insta)
         THEN "instagram"
         ELSE IF Contains(brand_input, Chars_twitter) \/ Contains(brand_input, Chars_xcom)
         THEN "twitter"
         ELSE "social"
    ELSE "brand_name"

\* The request error is caught inside _scrape_website: it returns a dict either way,
\* with a title only when the page was fetched.
_scrape_website(scrape) ==
    IF scrape = "page" THEN [url |-> "url", title |-> <<"title">>]
    ELSE [url |-> "url", error |-> "request_error"]

\* str.replace('@', '')
StripAt(s) == SelectSeq(s, LAMBDA c : c # "@")

collect_brand_data(brand_input, input_type, scrape) ==
    LET type == IF input_type = "auto" THEN _detect_input_type(brand_input) ELSE input_type
    IN  IF type = "website"
        THEN [website_data |-> _scrape_website(scrape),
              brand_name |-> Get(_scrape_website(scrape), "title", brand_input)]
        ELSE IF type \in {"instagram", "twitter", "linkedin"}
        THEN [website_data |-> <<>>, brand_name |-> StripAt(brand_input)]
        ELSE [website_data |-> _scrape_website(scrape), brand_name |-> brand_input]

-----------------------------------------------------------------------------
(* email_service.EmailService *)

\* Mutant: the SMTP exchange outside the try block, so its error propagates.
send_email_NoCatch(smtp) ==
    IF smtp = "sent" THEN [raised |-> FALSE, value |-> TRUE]
    ELSE [raised |-> TRUE, value |-> FALSE]

\* send_email catches every exception of the SMTP exchange and returns a bool.
send_email(smtp) ==
    IF smtp = "sent" THEN [raised |-> FALSE, value |-> TRUE]
    ELSE [raised |-> FALSE, value |-> FALSE]

\* A mail handed to send_email, and what the SMTP server did with it.
Mail(kind, to_email, brand_input, attachment, smtp) ==
    [kind |-> kind, to |-> to_email, brand |-> brand_input, attachment |-> attachment,
     smtp |-> smtp]

-----------------------------------------------------------------------------
(* The event loop *)

\* A step of a background task sends no response.
NoResponse == [op |-> "none", code |-> 0, body |-> <<>>]

\* Every handler and analyze_brand_genome are "async def" and run on the one
\* event loop thread; analyze_brand_genome contains no await, so from its first
\* statement to its last the loop runs nothing else.
LoopIdle == running = {} /\ chat_call = None

Job(j) == genome_jobs[j]

Created == DOMAIN genome_jobs

\* Mutant: every job gets the first identifier.
NewJobId_First == CHOOSE j \in JobIds : \A k \in JobIds : j <= k

\* str(uuid.uuid4()): an identifier no job has.
NewJobId == Cardinality(Created) + 1

SetJob(j, d) == [genome_jobs EXCEPT ![j] = d]

SetTask(j, t) == [tasks EXCEPT ![j] = t]

-----------------------------------------------------------------------------
Init ==
    /\ genome_jobs = <<>>
    /\ tasks = <<>>
    /\ running = {}
    /\ outbox = <<>>
    /\ now = 1
    /\ resp = NoResponse
    /\ chat_sessions = <<>>
    /\ session_count = 0
    /\ pending = {}
    /\ requests = 0
    /\ chat_call = None
    /\ replies = <<>>
    /\ files = <<>>

-----------------------------------------------------------------------------
(* POST /api/analyze *)

\* Mutant: the job is created already processing.
NewJob_Processing(job_id, brand_input, input_type, email) ==
    [job_id |-> job_id, status |-> PROCESSING, message |-> <<"Analysis starting...">>,
     brand_input |-> brand_input, input_type |-> input_type, email |-> email,
     created_at |-> now, pdf_url |-> None, email_sent |-> FALSE]

\* Mutant: the job is created without its message.
NewJob_NoMessage(job_id, brand_input, input_type, email) ==
    [job_id |-> job_id, status |-> PENDING,
     brand_input |-> brand_input, input_type |-> input_type, email |-> email,
     created_at |-> now, pdf_url |-> None, email_sent |-> FALSE]

\* Mutant: the job is created with the location of a report.
NewJob_WithUrl(job_id, brand_input, input_type, email) ==
    [job_id |-> job_id, status |-> PENDING, message |-> <<"Analysis starting...">>,
     brand_input |-> brand_input, input_type |-> input_type, email |-> email,
     created_at |-> now, pdf_url |-> <<"/api/download/report/", job_id>>,
     email_sent |-> FALSE]

NewJob(job_id, brand_input, input_type, email) ==
    [job_id |-> job_id, status |-> PENDING, message |-> <<"Analysis starting...">>,
     brand_input |-> brand_input, input_type |-> input_type, email |-> email,
     created_at |-> now, pdf_url |-> None, email_sent |-> FALSE]

analyze_brand(brand_input, input_type, email) ==
    /\ UNCHANGED chat_vars
    /\ LoopIdle
    /\ IF Len(brand_input) < 3
       THEN /\ resp' = [op |-> "analyze", code |-> 400,
                        body |-> [detail |-> "Brand input too short"]]
            /\ UNCHANGED <<genome_jobs, tasks, running, outbox, now>>
       ELSE /\ Cardinality(Created) < MaxJobs
            /\ LET job_id == NewJobId
               IN  /\ genome_jobs' = Put(genome_jobs, job_id,
                                         NewJob(job_id, brand_input, input_type, email))
                   /\ tasks' = Put(tasks, job_id, NewTask)
                   /\ resp' = [op |-> "analyze", code |-> 200,
                               body |-> [job_id |-> job_id, status |-> "pending"]]
            /\ now' = now + 1
            /\ UNCHANGED <<running, outbox>>

-----------------------------------------------------------------------------
(* GET /api/status/{job_id} *)

\* The response of the handler: job['status'] and job['message'] raise KeyError
\* on a dict without them (a 500), the other fields are read with dict.get.
StatusResponse(job_id) ==
    IF job_id \notin Created
    THEN [op |-> "status", code |-> 404, body |-> [detail |-> "Job not found"]]
    ELSE LET job == Job(job_id)
         IN  IF "status" \notin DOMAIN job \/ "message" \notin DOMAIN job
             THEN [op |-> "status", code |-> 500, body |-> [detail |-> "KeyError"]]
             ELSE [op |-> "status", code |-> 200,
                   body |-> [job_id |-> job_id,
                             status |-> job["status"],
                             message |-> job["message"],
                             brand_input |-> Get(job, "brand_input", None),
                             pdf_url |-> Get(job, "pdf_url", None),
                             email_sent |-> Get(job, "email_sent", FALSE),
                             created_at |-> Get(job, "created_at", None),
                             completed_at |-> Get(job, "completed_at", None)]]

get_genome_status(job_id) ==
    /\ UNCHANGED chat_vars
    /\ LoopIdle
    /\ resp' = StatusResponse(job_id)
    /\ UNCHANGED <<genome_jobs, tasks, running, outbox, now>>

-----------------------------------------------------------------------------
(* analyze_brand_genome: the background task of one job *)

At(j, p) == j \in Created /\ j \in running /\ tasks[j].pc = p

\* Mutant: the run starts without marking the job as processing.
run_start_NoProcessing(j) ==
    /\ UNCHANGED chat_vars
    /\ LoopIdle
    /\ j \in Created
    /\ tasks[j].pc = "scheduled"
    /\ running' = {j}
    /\ genome_jobs' = SetJob(j, Put(Job(j), "message", <<"Analyzing brand data...">>))
    /\ tasks' = SetTask(j, [tasks[j] EXCEPT !.pc = "init"])
    /\ resp' = NoResponse
    /\ UNCHANGED <<outbox, now>>

\* Lines 135-136: the loop picks the task up.
run_start(j) ==
    /\ UNCHANGED chat_vars
    /\ LoopIdle
    /\ j \in Created
    /\ tasks[j].pc = "scheduled"
    /\ running' = {j}
    /\ genome_jobs' = SetJob(j, Put(Put(Job(j), "status", PROCESSING),
                                    "message", <<"Analyzing brand data...">>))
    /\ tasks' = SetTask(j, [tasks[j] EXCEPT !.pc = "init"])
    /\ resp' = NoResponse
    /\ UNCHANGED <<outbox, now>>

\* Goes on to stage k: writes its progress message and enters its call.
EnterStage(j, job, task, k) ==
    /\ genome_jobs' = SetJob(j, Put(job, "message", StageLabel[k]))
    /\ tasks' = SetTask(j, [task EXCEPT !.pc = Stages[k]])

\* Mutant: the except clause records the reason but not the status.
Except_NoStatus(j, task, reason) ==
    /\ genome_jobs' = SetJob(j, Put(Job(j), "message", <<"Error generating genome: ", reason>>))
    /\ tasks' = SetTask(j, [task EXCEPT !.pc = "notify", !.raised_at = tasks[j].pc,
                                         !.e = reason])

\* Lines 217-222: the except clause, up to the call of send_error_email.
Except(j, task, reason) ==
    /\ genome_jobs' = SetJob(j, Put(Put(Job(j), "status", FAILED),
                                    "message", <<"Error generating genome: ", reason>>))
    /\ tasks' = SetTask(j, [task EXCEPT !.pc = "notify", !.raised_at = tasks[j].pc,
                                         !.e = reason])

\* Lines 138-151: the imports and the two constructors succeed.
run_init(j) ==
    /\ UNCHANGED chat_vars
    /\ At(j, "init")
    /\ EnterStage(j, Job(j),
                  [tasks[j] EXCEPT !.locals = {"EmailService", "engine", "email_service"}], 1)
    /\ resp' = NoResponse
    /\ UNCHANGED <<running, outbox, now>>

\* Line 138 raises ImportError, or line 146 raises ValueError (no API key).
run_init_raises(j, reason) ==
    /\ UNCHANGED chat_vars
    /\ At(j, "init")
    /\ Except(j, [tasks[j] EXCEPT !.locals = IF reason = "ImportError" THEN {}
                                              ELSE {"EmailService"}], reason)
    /\ resp' = NoResponse
    /\ UNCHANGED <<running, outbox, now>>

InitErrors == {"ImportError", "OpenAI API key required for Market Genome analysis"}

\* Mutant: a failed scrape is raised by stage 1.
stage_collect_Fatal(j, scrape) ==
    /\ UNCHANGED chat_vars
    /\ At(j, "collect")
    /\ IF scrape = "request_error"
       THEN Except(j, tasks[j], "RequestException")
       ELSE EnterStage(j, Job(j),
                  [tasks[j] EXCEPT !.locals = @ \cup {StageLocal[1]},
                                   !.brand_data = collect_brand_data(Job(j)["brand_input"],
                                                      Job(j)["input_type"], scrape)], 2)
    /\ resp' = NoResponse
    /\ UNCHANGED <<running, outbox, now>>

\* Stage 1 returns (lines 153-160); a failed scrape is part of its result.
stage_collect(j, scrape) ==
    /\ UNCHANGED chat_vars
    /\ At(j, "collect")
    /\ EnterStage(j, Job(j),
                  [tasks[j] EXCEPT !.locals = @ \cup {StageLocal[1]},
                                   !.brand_data = collect_brand_data(Job(j)["brand_input"],
                                                      Job(j)["input_type"], scrape)], 2)
    /\ resp' = NoResponse
    /\ UNCHANGED <<running, outbox, now>>

\* Mutant: after stage 3 the run goes on to stage 5.
StageReturns_Skips(j, k) ==
    /\ UNCHANGED chat_vars
    /\ At(j, Stages[k])
    /\ EnterStage(j, Job(j), [tasks[j] EXCEPT !.locals = @ \cup {StageLocal[k]}],
                  IF Stages[k] = "competitors" THEN k + 2 ELSE k + 1)
    /\ resp' = NoResponse
    /\ UNCHANGED <<running, outbox, now>>

\* Stages 2 to 5 return (lines 162-184): the result is bound to a local only.
StageReturns(j, k) ==
    /\ UNCHANGED chat_vars
    /\ At(j, Stages[k])
    /\ EnterStage(j, Job(j), [tasks[j] EXCEPT !.locals = @ \cup {StageLocal[k]}], k + 1)
    /\ resp' = NoResponse
    /\ UNCHANGED <<running, outbox, now>>

stage_brand_dna(j) == StageReturns(j, 2)

stage_competitors(j) == StageReturns(j, 3)

stage_roadmap(j) == StageReturns(j, 4)

stage_content(j) == StageReturns(j, 5)

\* Mutant: stage 6 stores the path of the report but not its URL.
stage_report_NoUrl(j) ==
    /\ UNCHANGED chat_vars
    /\ At(j, "report")
    /\ EnterStage(j, Put(Job(j), "pdf_path", <<"report.pdf", j>>),
                  [tasks[j] EXCEPT !.locals = @ \cup {StageLocal[6]}], 7)
    /\ resp' = NoResponse
    /\ UNCHANGED <<running, outbox, now>>

\* Stage 6 returns (lines 186-200); the renderer's path is opaque, one per call.
stage_report(j) ==
    /\ UNCHANGED chat_vars
    /\ At(j, "report")
    /\ EnterStage(j, Put(Put(Job(j), "pdf_path", <<"report.pdf", j>>),
                         "pdf_url", <<"/api/download/report/", j>>),
                  [tasks[j] EXCEPT !.locals = @ \cup {StageLocal[6]}], 7)
    /\ resp' = NoResponse
    /\ UNCHANGED <<running, outbox, now>>

\* The error text of a call that raises in stages 2 to 6.
StageError(p) == IF p = "report" THEN "RenderError" ELSE "ServiceError"

\* A stage's call raises: the backend calls of stages 2 to 5 and the renderer of
\* stage 6 (collect_brand_data catches its own errors).
stage_raises(j) ==
    /\ UNCHANGED chat_vars
    /\ j \in Created /\ j \in running
    /\ tasks[j].pc \in {"brand_dna", "competitors", "roadmap", "content", "report"}
    /\ Except(j, tasks[j], StageError(tasks[j].pc))
    /\ resp' = NoResponse
    /\ UNCHANGED <<running, outbox, now>>

\* Mutant: the run ends after the mail without marking the job as completed.
stage_deliver_NoStatus(j, smtp) ==
    /\ UNCHANGED chat_vars
    /\ At(j, "deliver")
    /\ outbox' = Append(outbox, Mail("report", Job(j)["email"], Job(j)["brand_input"],
                                    Job(j)["pdf_path"], smtp))
    /\ genome_jobs' = SetJob(j, Put(Job(j), "email_sent", send_email(smtp).value))
    /\ tasks' = SetTask(j, EndTask)
    /\ running' = {}
    /\ now' = now + 1
    /\ resp' = NoResponse

\* Stage 7 returns (lines 202-215), and the task ends.
stage_deliver(j, smtp) ==
    /\ UNCHANGED chat_vars
    /\ At(j, "deliver")
    /\ outbox' = Append(outbox, Mail("report", Job(j)["email"], Job(j)["brand_input"],
                                    Job(j)["pdf_path"], smtp))
    /\ LET r == send_email(smtp)
       IN  IF r.raised
           THEN /\ Except(j, tasks[j], "SMTPException")
                /\ UNCHANGED <<running, now>>
           ELSE /\ genome_jobs' = SetJob(j,
                       Put(Put(Put(Put(Job(j), "email_sent", r.value),
                                   "status", COMPLETED),
                               "message", <<"Marketing Genome Report generated successfully!">>),
                           "completed_at", Some(now)))
                /\ tasks' = SetTask(j, EndTask)
                /\ running' = {}
                /\ now' = now + 1
    /\ resp' = NoResponse

\* Mutant: a failed error mail is reported in the job's message.
notify_error_Overwrites(j, smtp) ==
    /\ UNCHANGED chat_vars
    /\ At(j, "notify")
    /\ outbox' = IF "EmailService" \in tasks[j].locals
                 THEN Append(outbox, Mail("error", Job(j)["email"], Job(j)["brand_input"], None, smtp))
                 ELSE outbox
    /\ tasks' = SetTask(j, EndTask)
    /\ running' = {}
    /\ genome_jobs' = IF smtp = "sent" THEN genome_jobs
                      ELSE SetJob(j, Put(Job(j), "message", <<"Error sending mail">>))
    /\ resp' = NoResponse
    /\ UNCHANGED now

\* Mutant: an error mail the SMTP server refused is sent again.
notify_error_Retries(j, smtp) ==
    /\ UNCHANGED chat_vars
    /\ At(j, "notify")
    /\ outbox' = IF "EmailService" \in tasks[j].locals
                 THEN Append(outbox, Mail("error", Job(j)["email"], Job(j)["brand_input"], None, smtp))
                 ELSE outbox
    /\ IF smtp = "sent" \/ "EmailService" \notin tasks[j].locals \/ Len(outbox) >= MaxJobs
       THEN tasks' = SetTask(j, EndTask) /\ running' = {}
       ELSE UNCHANGED <<tasks, running>>
    /\ resp' = NoResponse
    /\ UNCHANGED <<genome_jobs, now>>

\* Lines 225-229: the error mail; whatever happens in it is swallowed.
notify_error(j, smtp) ==
    /\ UNCHANGED chat_vars
    /\ At(j, "notify")
    /\ outbox' = IF "EmailService" \in tasks[j].locals
                 THEN Append(outbox, Mail("error", Job(j)["email"], Job(j)["brand_input"], None, smtp))
                 ELSE outbox
    /\ tasks' = SetTask(j, EndTask)
    /\ running' = {}
    /\ resp' = NoResponse
    /\ UNCHANGED <<genome_jobs, now>>

-----------------------------------------------------------------------------
Next ==
    \/ \E b \in Brands, t \in InputTypes, m \in Emails : analyze_brand(b, t, m)
    \/ \E id \in QueryIds : get_genome_status(id)
    \/ \E j \in JobIds : run_start(j)
    \/ \E j \in JobIds : run_init(j)
    \/ \E j \in JobIds, reason \in InitErrors : run_init_raises(j, reason)
    \/ \E j \in JobIds, s \in ScrapeOutcomes : stage_collect(j, s)
    \/ \E j \in JobIds : stage_brand_dna(j)
    \/ \E j \in JobIds : stage_competitors(j)
    \/ \E j \in JobIds : stage_roadmap(j)
    \/ \E j \in JobIds : stage_content(j)
    \/ \E j \in JobIds : stage_report(j)
    \/ \E j \in JobIds : stage_raises(j)
    \/ \E j \in JobIds, s \in SmtpOutcomes : stage_deliver(j, s)
    \/ \E j \in JobIds, s \in SmtpOutcomes : notify_error(j, s)

Spec == Init /\ [][Next]_vars

\* The statements of the run of job j: each is a call that returns or raises.
RunStep(j) ==
    \/ run_start(j)
    \/ run_init(j)
    \/ \E reason \in InitErrors : run_init_raises(j, reason)
    \/ \E s \in ScrapeOutcomes : stage_collect(j, s)
    \/ stage_brand_dna(j)
    \/ stage_competitors(j)
    \/ stage_roadmap(j)
    \/ stage_content(j)
    \/ stage_report(j)
    \/ stage_raises(j)
    \/ \E s \in SmtpOutcomes : stage_deliver(j, s)
    \/ \E s \in SmtpOutcomes : notify_error(j, s)

\* The loop runs a scheduled task when it is free, and every call of a run
\* returns or raises in the end (the calls have timeouts).
SpecLive == Spec /\ \A j \in JobIds : WF_vars(RunStep(j))

-----------------------------------------------------------------------------
(* Chat: bounds and input sets *)

MaxSessions == 2

MaxRequests == 2

\* Identifiers a client may send: every possible session id and one more.
SessionQueryIds == 1..(MaxSessions + 1)

\* brand_handle values of ChatInitRequest, as sequences of characters.
ChatBrands == { <<"a", "c", "m", "e">> }

\* message values of ChatMessageRequest, as sequences of characters: an image
\* request that names a competitor, a report request, and small talk.
Text_image_rival == <<"I", "m", "a", "g", "e", " ", "o", "f", " ", "R", "i", "v", "a", "l">>
Text_send_report == <<"s", "e", "n", "d", " ", "r", "e", "p", "o", "r", "t">>
Text_hi == <<"h", "i">>

ChatTexts == {Text_image_rival, Text_send_report, Text_hi}

\* What the OpenAI API does with a call.
BackendOutcomes == {"ok", "api_error"}

\* What the file system does with the export.
ExportOutcomes == {"written", "io_error"}

\* Whether OpenAI(api_key=...) accepts the configured key.
ClientOutcomes == {"client", "no_api_key"}

-----------------------------------------------------------------------------
(* brand_ai_assistant.PixaroBrandAssistant._detect_action_type *)

UpperChars == <<"A", "B", "C", "D", "E", "F", "G", "H", "I", "J", "K", "L", "M", "N", "O", "P", "Q", "R", "S", "T", "U", "V", "W", "X", "Y", "Z">>
LowerChars == <<"a", "b", "c", "d", "e", "f", "g", "h", "i", "j", "k", "l", "m", "n", "o", "p", "q", "r", "s", "t", "u", "v", "w", "x", "y", "z">>

LowerChar(c) ==
    IF \E i \in DOMAIN UpperChars : UpperChars[i] = c
    THEN LowerChars[CHOOSE i \in DOMAIN UpperChars : UpperChars[i] = c]
    ELSE c

\* str.lower()
lower(s) == [i \in DOMAIN s |-> LowerChar(s[i])]

\* any(phrase in message for phrase in phrases)
AnyIn(phrases, message) == \E phrase \in phrases : Contains(message, phrase)

ImagePhrases == {
    <<"c", "r", "e", "a", "t", "e", " ", "a", " ", "i", "m", "a", "g", "e">>,
    <<"c", "r", "e", "a", "t", "e", " ", "a", "n", " ", "i", "m", "a", "g", "e">>,
    <<"g", "e", "n", "e", "r", "a", "t", "e", " ", "a", " ", "i", "m", "a", "g", "e">>,
    <<"g", "e", "n", "e", "r", "a", "t", "e", " ", "a", "n", " ", "i", "m", "a", "g", "e">>,
    <<"g", "e", "n", "e", "r", "a", "t", "e", " ", "i", "m", "a", "g", "e">>,
    <<"m", "a", "k", "e", " ", "i", "m", "a", "g", "e">>,
    <<"m", "a", "k", "e", " ", "a", " ", "i", "m", "a", "g", "e">>,
    <<"m", "a", "k", "e", " ", "a", "n", " ", "i", "m", "a", "g", "e">>,
    <<"c", "r", "e", "a", "t", "e", " ", "a", " ", "p", "h", "o", "t", "o">>,
    <<"c", "r", "e", "a", "t", "e", " ", "p", "h", "o", "t", "o">>,
    <<"g", "e", "n", "e", "r", "a", "t", "e", " ", "a", " ", "p", "h", "o", "t", "o">>,
    <<"g", "e", "n", "e", "r", "a", "t", "e", " ", "p", "h", "o", "t", "o">>,
    <<"m", "a", "k", "e", " ", "p", "h", "o", "t", "o">>,
    <<"d", "e", "s", "i", "g", "n", " ", "a", " ", "p", "o", "s", "t">>,
    <<"d", "e", "s", "i", "g", "n", " ", "p", "o", "s", "t">>,
    <<"c", "r", "e", "a", "t", "e", " ", "v", "i", "s", "u", "a", "l">>,
    <<"g", "e", "n", "e", "r", "a", "t", "e", " ", "v", "i", "s", "u", "a", "l">>,
    <<"m", "a", "k", "e", " ", "a", " ", "p", "o", "s", "t", " ", "p", "h", "o", "t", "o">>,
    <<"c", "r", "e", "a", "t", "e", " ", "p", "o", "s", "t", " ", "i", "m", "a", "g", "e">>,
    <<"i", "m", "a", "g", "e", " ", "o", "f">>,
    <<"p", "h", "o", "t", "o", " ", "o", "f">>,
    <<"i", "m", "a", "g", "e", " ", "a", "b", "o", "u", "t">>,
    <<"p", "h", "o", "t", "o", " ", "a", "b", "o", "u", "t">>,
    <<"p", "i", "c", "t", "u", "r", "e", " ", "o", "f">>,
    <<"p", "i", "c", "t", "u", "r", "e", " ", "a", "b", "o", "u", "t">>,
    <<"g", "r", "a", "p", "h", "i", "c", " ", "a", "b", "o", "u", "t">>,
    <<"g", "r", "a", "p", "h", "i", "c", " ", "o", "f">>,
    <<"d", "e", "s", "i", "g", "n", " ", "a", "b", "o", "u", "t">> }

ReportPhrases == {
    <<"g", "e", "n", "e", "r", "a", "t", "e", " ", "r", "e", "p", "o", "r", "t">>,
    <<"s", "e", "n", "d", " ", "r", "e", "p", "o", "r", "t">>,
    <<"c", "r", "e", "a", "t", "e", " ", "r", "e", "p", "o", "r", "t">>,
    <<"e", "m", "a", "i", "l", " ", "r", "e", "p", "o", "r", "t">> }

ContentPhrases == {
    <<"g", "e", "n", "e", "r", "a", "t", "e", " ", "p", "o", "s", "t">>,
    <<"c", "r", "e", "a", "t", "e", " ", "c", "a", "p", "t", "i", "o", "n">>,
    <<"w", "r", "i", "t", "e", " ", "p", "o", "s", "t">>,
    <<"g", "e", "n", "e", "r", "a", "t", "e", " ", "c", "o", "n", "t", "e", "n", "t">> }

CompetitorPhrases == {
    <<"c", "o", "m", "p", "e", "t", "i", "t", "o", "r">>,
    <<"c", "o", "m", "p", "e", "t", "i", "t", "i", "o", "n">>,
    <<"r", "i", "v", "a", "l">> }

PredictivePhrases == {
    <<"p", "r", "e", "d", "i", "c", "t">>,
    <<"f", "o", "r", "e", "c", "a", "s", "t">>,
    <<"w", "h", "a", "t", " ", "i", "f">>,
    <<"s", "c", "e", "n", "a", "r", "i", "o">> }

AudiencePhrases == {
    <<"p", "e", "r", "s", "o", "n", "a">>,
    <<"a", "u", "d", "i", "e", "n", "c", "e", " ", "s", "e", "g", "m", "e", "n", "t">>,
    <<"w", "h", "o", " ", "i", "s">> }

CampaignPhrases == {
    <<"c", "a", "m", "p", "a", "i", "g", "n">>,
    <<"s", "t", "r", "a", "t", "e", "g", "y">>,
    <<"p", "l", "a", "n">> }

\* Mutant: the competitor words are looked for before the image phrases.
_detect_action_type_CompetitorFirst(message) ==
    LET message_lower == lower(message)
    IN  IF AnyIn(CompetitorPhrases, message_lower) THEN "competitor_analysis"
        ELSE IF AnyIn(ImagePhrases, message_lower) THEN "generate_image"
        ELSE IF AnyIn(ReportPhrases, message_lower) THEN "generate_report"
        ELSE IF AnyIn(ContentPhrases, message_lower) THEN "generate_content"
        ELSE IF AnyIn(PredictivePhrases, message_lower) THEN "predictive_analysis"
        ELSE IF AnyIn(AudiencePhrases, message_lower) THEN "audience_insights"
        ELSE IF AnyIn(CampaignPhrases, message_lower) THEN "campaign_creation"
        ELSE "general_chat"

_detect_action_type(message) ==
    LET message_lower == lower(message)
    IN  IF AnyIn(ImagePhrases, message_lower) THEN "generate_image"
        ELSE IF AnyIn(ReportPhrases, message_lower) THEN "generate_report"
        ELSE IF AnyIn(ContentPhrases, message_lower) THEN "generate_content"
        ELSE IF AnyIn(CompetitorPhrases, message_lower) THEN "competitor_analysis"
        ELSE IF AnyIn(PredictivePhrases, message_lower) THEN "predictive_analysis"
        ELSE IF AnyIn(AudiencePhrases, message_lower) THEN "audience_insights"
        ELSE IF AnyIn(CampaignPhrases, message_lower) THEN "campaign_creation"
        ELSE "general_chat"

\* Line 214: the needs_report flag of a reply that the completion produced.
needs_report(user_message) ==
    /\ Contains(lower(user_message), <<"r", "e", "p", "o", "r", "t">>)
    /\ \/ Contains(lower(user_message), <<"g", "e", "n", "e", "r", "a", "t", "e">>)
       \/ Contains(lower(user_message), <<"s", "e", "n", "d">>)

-----------------------------------------------------------------------------
(* Chat sessions: market_genome_main.chat_sessions and the assistant objects *)

\* What the job pipeline owns, and the clock.
job_vars == <<genome_jobs, tasks, running, outbox, now>>

\* del d[k]
Del(d, k) == [x \in DOMAIN d \ {k} |-> d[x]]

Live == DOMAIN chat_sessions

Session(sid) == chat_sessions[sid]

History(sid) == chat_sessions[sid].assistant.conversation_history

\* Mutant: a live session's identifier is handed out again.
NewSessionId_Reused == IF Live = {} THEN session_count + 1 ELSE CHOOSE sid \in Live : TRUE

\* str(uuid.uuid4()): an identifier no session has or had.
NewSessionId == session_count + 1

SetSession(sid, session) == [chat_sessions EXCEPT ![sid] = session]

\* The request a handler other than send_chat_message answers.
SessionRequest(sid) == [session_id |-> sid]

\* Mutant: the loop accepts a job of the brand whatever its status.
ContextJobs_AnyStatus(brand_handle) ==
    { j \in Created : lower(Get(Job(j), "brand_input", <<>>)) = lower(brand_handle) }

\* Lines 377-379: the jobs the loop of initialize_chat accepts: completed, with
\* a brand_input that is the handle when both are put in lower case.
ContextJobs(brand_handle) ==
    { j \in Created :
        /\ lower(Get(Job(j), "brand_input", <<>>)) = lower(brand_handle)
        /\ "status" \in DOMAIN Job(j)
        /\ Job(j)["status"] = COMPLETED }

\* Lines 377-388: the loop stops at the first job it accepts ("break"); a dict
\* iterates in insertion order, which is the order of the job ids here.
ContextJob(brand_handle) ==
    CHOOSE j \in ContextJobs(brand_handle) : \A k \in ContextJobs(brand_handle) : j <= k

\* Lines 375-388: the context read from that job, None when there is none.
BrandContext(brand_handle) ==
    IF ContextJobs(brand_handle) = {} THEN None
    ELSE LET job == Job(ContextJob(brand_handle))
         IN  Some([brand_dna |-> Get(job, "brand_dna", <<>>),
                   audience |-> Get(job, "audience", <<>>),
                   competitors |-> Get(job, "competitors", <<>>)])

\* PixaroBrandAssistant.__init__; its session_id is the clock's reading, and
\* "brand_context or {}" turns None into the empty dict, which is <<>> as well.
PixaroBrandAssistant(brand_handle, brand_context) ==
    [brand_handle |-> brand_handle, brand_context |-> brand_context,
     conversation_history |-> <<>>, session_id |-> now]

WelcomeMessage(brand_handle) ==
    <<"Hi! I'm your personal AI strategist for ">> \o brand_handle
        \o <<"What would you like to work on today?">>

\* POST /api/chat/init
initialize_chat(brand_handle, client) ==
    /\ LoopIdle
    /\ UNCHANGED <<job_vars, pending, requests, chat_call, files>>
    /\ IF client = "no_api_key"
       THEN /\ resp' = [op |-> "init", code |-> 500,
                        body |-> [detail |-> <<"Failed to initialize chat: ", "OpenAIError">>]]
            /\ UNCHANGED <<chat_sessions, session_count, replies>>
       ELSE /\ session_count < MaxSessions
            /\ LET session_id == NewSessionId
                   brand_context == BrandContext(brand_handle)
               IN  /\ chat_sessions' = Put(chat_sessions, session_id,
                          [session_id |-> session_id,
                           brand_handle |-> brand_handle,
                           assistant |-> PixaroBrandAssistant(brand_handle, brand_context),
                           created_at |-> now,
                           last_activity |-> now])
                   /\ session_count' = session_count + 1
                   /\ replies' = Put(replies, session_id, 0)
                   /\ resp' = [op |-> "init", code |-> 200,
                               body |-> [session_id |-> session_id,
                                         brand_handle |-> brand_handle,
                                         welcome_message |-> WelcomeMessage(brand_handle),
                                         has_context |-> brand_context # None]]

-----------------------------------------------------------------------------
(* POST /api/chat/message: send_chat_message and PixaroBrandAssistant.chat *)

\* A request for /api/chat/message reaches the server; the loop picks it up
\* when it is free.
chat_request(sid, message) ==
    /\ requests < MaxRequests
    /\ [session_id |-> sid, message |-> message] \notin pending
    /\ pending' = pending \cup {[session_id |-> sid, message |-> message]}
    /\ requests' = requests + 1
    /\ resp' = NoResponse
    /\ UNCHANGED <<job_vars, chat_sessions, session_count, chat_call, replies, files>>

\* Mutant: the entry of a completion carries an image_url as well.
AssistantEntry_WithImage(content) ==
    [role |-> "assistant", content |-> content, timestamp |-> now,
     image_url |-> <<"https://images/generated.png">>]

UserEntry(content) == [role |-> "user", content |-> content, timestamp |-> now]

AssistantEntry(content) == [role |-> "assistant", content |-> content, timestamp |-> now]

ImageEntry(content, image_url) ==
    [role |-> "assistant", content |-> content, timestamp |-> now, image_url |-> image_url]

\* Mutant: the history is started again with the entry (clear_conversation).
AppendHistory_Clears(session, entry) ==
    [session EXCEPT !.assistant.conversation_history = <<entry>>]

\* self.conversation_history.append(entry)
AppendHistory(session, entry) ==
    [session EXCEPT !.assistant.conversation_history = Append(@, entry)]

\* The texts of the OpenAI API: a completion, an image URL, an exception's str().
CompletionText == <<"completion">>

ImageUrl == <<"https://images/generated.png">>

ApiErrorText == "APIError: insufficient_quota"

ImageReply(prompt) ==
    <<"I've generated an image for you! Here's what I created:">> \o prompt
        \o <<"Would you like me to create another variation or adjust anything?">>

ErrorReply(e, brand_handle) ==
    <<"I encountered an error: ", e,
      ". Let me try to help you anyway. What would you like to know about ">>
        \o brand_handle \o <<"?">>

\* Lines 461-468: the body send_chat_message builds from chat()'s result.
ChatResponse(r, response_data) ==
    [op |-> "chat", code |-> 200, req |-> r,
     body |-> [session_id |-> r.session_id,
               response |-> response_data.response,
               action_type |-> Get(response_data, "action_type", "general_chat"),
               needs_report |-> Get(response_data, "needs_report", FALSE),
               image_url |-> Get(response_data, "image_url", None),
               timestamp |-> Get(response_data, "timestamp", None)]]

\* Mutant: an unknown session is reported as a failure of the chat.
ChatNotFound_AsError(r) ==
    [op |-> "chat", code |-> 500, req |-> r,
     body |-> [detail |-> <<"Chat error: ", "KeyError">>]]

\* Lines 446-447.
ChatNotFound(r) ==
    [op |-> "chat", code |-> 404, req |-> r,
     body |-> [detail |-> <<"Session not found. Please initialize chat first.">>]]

\* The backend call chat() makes first for a message of this category.
FirstCall(action_type) ==
    IF action_type = "generate_image" THEN "images.generate" ELSE "chat.completions.create"

\* Mutant: a message classified as a report request creates the job itself.
send_chat_message_CreatesJob(r) ==
    /\ LoopIdle
    /\ r \in pending
    /\ pending' = pending \ {r}
    /\ UNCHANGED <<running, outbox, now, session_count, requests, replies, files>>
    /\ IF r.session_id \notin Live
       THEN /\ resp' = ChatNotFound(r)
            /\ UNCHANGED <<chat_sessions, chat_call, genome_jobs, tasks>>
       ELSE LET session == [Session(r.session_id) EXCEPT !.last_activity = now]
                action_type == _detect_action_type(r.message)
                job_id == NewJobId
            IN  /\ chat_sessions' = SetSession(r.session_id,
                                               AppendHistory(session, UserEntry(r.message)))
                /\ chat_call' = Some([req |-> r, action_type |-> action_type,
                                      pc |-> FirstCall(action_type)])
                /\ resp' = NoResponse
                /\ IF action_type = "generate_report" /\ Cardinality(Created) < MaxJobs
                   THEN /\ genome_jobs' = Put(genome_jobs, job_id,
                               NewJob(job_id, session.brand_handle, "auto", "user@x.com"))
                        /\ tasks' = Put(tasks, job_id, NewTask)
                   ELSE UNCHANGED <<genome_jobs, tasks>>

\* The handler starts: it validates the session, stamps it, and chat() appends
\* the user's message, classifies it and enters its backend call.  The handler
\* has no await: until it returns, the loop runs nothing else.
send_chat_message(r) ==
    /\ LoopIdle
    /\ r \in pending
    /\ pending' = pending \ {r}
    /\ UNCHANGED <<job_vars, session_count, requests, replies, files>>
    /\ IF r.session_id \notin Live
       THEN /\ resp' = ChatNotFound(r)
            /\ UNCHANGED <<chat_sessions, chat_call>>
       ELSE LET session == [Session(r.session_id) EXCEPT !.last_activity = now]
                action_type == _detect_action_type(r.message)
            IN  /\ chat_sessions' = SetSession(r.session_id,
                                               AppendHistory(session, UserEntry(r.message)))
                /\ chat_call' = Some([req |-> r, action_type |-> action_type,
                                      pc |-> FirstCall(action_type)])
                /\ resp' = NoResponse

InCall(pc) == chat_call # None /\ chat_call[1].pc = pc

\* generate_image returns to chat() (lines 161-184): with an image the turn
\* ends; without one chat() goes on to the completion.
chat_image_returns(outcome) ==
    /\ InCall("images.generate")
    /\ UNCHANGED <<job_vars, session_count, pending, requests, files>>
    /\ LET call == chat_call[1]
           sid == call.req.session_id
           assistant_response == ImageReply(call.req.message)
       IN  IF outcome = "ok"
           THEN /\ chat_sessions' = SetSession(sid,
                       AppendHistory(Session(sid), ImageEntry(assistant_response, ImageUrl)))
                /\ chat_call' = None
                /\ replies' = [replies EXCEPT ![sid] = @ + 1]
                /\ resp' = ChatResponse(call.req,
                              [response |-> assistant_response,
                               action_type |-> call.action_type,
                               needs_report |-> FALSE,
                               image_url |-> Some(ImageUrl),
                               timestamp |-> Some(now)])
           ELSE /\ chat_call' = Some([call EXCEPT !.pc = "chat.completions.create"])
                /\ resp' = NoResponse
                /\ UNCHANGED <<chat_sessions, replies>>

\* Lines 194-216: the completion arrived.
CompletionReturns(call) ==
    LET sid == call.req.session_id
    IN  /\ chat_sessions' = SetSession(sid,
               AppendHistory(Session(sid), AssistantEntry(CompletionText)))
        /\ replies' = [replies EXCEPT ![sid] = @ + 1]
        /\ resp' = ChatResponse(call.req,
                      [response |-> CompletionText,
                       action_type |-> call.action_type,
                       needs_report |-> needs_report(call.req.message),
                       timestamp |-> Some(now)])

\* Mutant: chat() has no except clause, so the handler's own clause answers.
CompletionRaises_NoCatch(call) ==
    /\ resp' = [op |-> "chat", code |-> 500, req |-> call.req,
                body |-> [detail |-> <<"Chat error: ", ApiErrorText>>]]
    /\ UNCHANGED <<chat_sessions, replies>>

\* Lines 218-225: the completion raised.
CompletionRaises(call) ==
    /\ resp' = ChatResponse(call.req,
                  [response |-> ErrorReply(ApiErrorText,
                                           Session(call.req.session_id).assistant.brand_handle),
                   action_type |-> "error",
                   needs_report |-> FALSE,
                   timestamp |-> Some(now)])
    /\ replies' = [replies EXCEPT ![call.req.session_id] = @ + 1]
    /\ UNCHANGED chat_sessions

\* chat.completions.create returns to chat(), chat() to the handler, and the
\* handler sends its response.
chat_completion_returns(outcome) ==
    /\ InCall("chat.completions.create")
    /\ UNCHANGED <<job_vars, session_count, pending, requests, files>>
    /\ chat_call' = None
    /\ IF outcome = "ok"
       THEN CompletionReturns(chat_call[1])
       ELSE CompletionRaises(chat_call[1])

-----------------------------------------------------------------------------
(* The other chat endpoints *)

NotFound(op, sid) ==
    [op |-> op, code |-> 404, req |-> SessionRequest(sid),
     body |-> [detail |-> <<"Session not found">>]]

\* Mutant: the job of a chat report is created already processing.
ChatJob_Processing(job_id, session_id, email) ==
    [job_id |-> job_id, status |-> PROCESSING,
     message |-> <<"Generating report from chat session...">>,
     brand_input |-> Session(session_id).brand_handle, input_type |-> "auto",
     email |-> email, created_at |-> now, pdf_url |-> None, email_sent |-> FALSE,
     from_chat |-> TRUE, chat_session_id |-> session_id]

\* Mutant: the job of a chat report is created with the label of stage 6.
ChatJob_LateLabel(job_id, session_id, email) ==
    [job_id |-> job_id, status |-> PENDING,
     message |-> StageLabel[6],
     brand_input |-> Session(session_id).brand_handle, input_type |-> "auto",
     email |-> email, created_at |-> now, pdf_url |-> None, email_sent |-> FALSE,
     from_chat |-> TRUE, chat_session_id |-> session_id]

\* Lines 500-512: the job of a report asked for in a chat.
ChatJob(job_id, session_id, email) ==
    [job_id |-> job_id, status |-> PENDING,
     message |-> <<"Generating report from chat session...">>,
     brand_input |-> Session(session_id).brand_handle, input_type |-> "auto",
     email |-> email, created_at |-> now, pdf_url |-> None, email_sent |-> FALSE,
     from_chat |-> TRUE, chat_session_id |-> session_id]

\* POST /api/chat/generate-report
generate_chat_report(sid, email) ==
    /\ LoopIdle
    /\ UNCHANGED <<running, outbox, chat_vars>>
    /\ IF sid \notin Live
       THEN /\ resp' = NotFound("report", sid)
            /\ UNCHANGED <<genome_jobs, tasks, now>>
       ELSE /\ Cardinality(Created) < MaxJobs
            /\ LET job_id == NewJobId
               IN  /\ genome_jobs' = Put(genome_jobs, job_id, ChatJob(job_id, sid, email))
                   /\ tasks' = Put(tasks, job_id, NewTask)
                   /\ resp' = [op |-> "report", code |-> 200,
                               req |-> [session_id |-> sid, email |-> email],
                               body |-> [success |-> TRUE, job_id |-> job_id,
                                         message |-> <<"Report is being generated">>,
                                         estimated_time |-> <<"3-5 minutes">>]]
            /\ UNCHANGED now

\* GET /api/chat/history/{session_id}
get_chat_history(sid) ==
    /\ LoopIdle
    /\ UNCHANGED <<job_vars, chat_vars>>
    /\ resp' = IF sid \notin Live
               THEN NotFound("history", sid)
               ELSE [op |-> "history", code |-> 200, req |-> SessionRequest(sid),
                     body |-> [session_id |-> sid,
                               brand_handle |-> Session(sid).brand_handle,
                               conversation |-> History(sid),
                               created_at |-> Session(sid).created_at,
                               last_activity |-> Session(sid).last_activity]]

\* The default filepath of export_conversation: the handle and the assistant's
\* session_id, which is the second it was constructed in.
ExportPath(assistant) ==
    <<"conversations/conversation_", assistant.brand_handle, assistant.session_id, ".json">>

ExportData(assistant) ==
    [brand_handle |-> assistant.brand_handle, session_id |-> assistant.session_id,
     conversation |-> assistant.conversation_history,
     brand_context |-> assistant.brand_context, exported_at |-> now]

\* Mutant: the handler does not catch what export_conversation raises.
TryExport_NoCatch(assistant, export) ==
    IF export = "written"
    THEN [raised |-> FALSE, export_path |-> Some(ExportPath(assistant))]
    ELSE [raised |-> TRUE, export_path |-> None]

\* Lines 569-574: the export and its except clause.
TryExport(assistant, export) ==
    IF export = "written"
    THEN [raised |-> FALSE, export_path |-> Some(ExportPath(assistant))]
    ELSE [raised |-> FALSE, export_path |-> None]

\* Mutant: the session is left in the registry.
RemoveSession_Keeps(sid) == chat_sessions

\* Line 577: del chat_sessions[session_id]
RemoveSession(sid) == Del(chat_sessions, sid)

\* DELETE /api/chat/session/{session_id}
end_chat_session(sid, export) ==
    /\ LoopIdle
    /\ UNCHANGED <<job_vars, session_count, pending, requests, chat_call>>
    /\ IF sid \notin Live
       THEN /\ resp' = NotFound("end", sid)
            /\ UNCHANGED <<chat_sessions, replies, files>>
       ELSE LET assistant == Session(sid).assistant
                exported == TryExport(assistant, export)
            IN  /\ files' = IF export = "written"
                            THEN Put(files, ExportPath(assistant), ExportData(assistant))
                            ELSE files
                /\ IF exported.raised
                   THEN /\ resp' = [op |-> "end", code |-> 500, req |-> SessionRequest(sid),
                                    body |-> [detail |-> <<"Internal Server Error">>]]
                        /\ UNCHANGED <<chat_sessions, replies>>
                   ELSE /\ chat_sessions' = RemoveSession(sid)
                        /\ replies' = [s \in DOMAIN chat_sessions' |-> replies[s]]
                        /\ resp' = [op |-> "end", code |-> 200, req |-> SessionRequest(sid),
                                    body |-> [success |-> TRUE,
                                              message |-> <<"Chat session ended">>,
                                              export_path |-> exported.export_path]]

\* GET /api/chat/sessions
list_chat_sessions ==
    /\ LoopIdle
    /\ UNCHANGED <<job_vars, chat_vars>>
    /\ resp' = [op |-> "list", code |-> 200,
                body |-> [total_sessions |-> Cardinality(Live),
                          sessions |-> { [session_id |-> sid,
                                          brand_handle |-> Session(sid).brand_handle,
                                          created_at |-> Session(sid).created_at,
                                          last_activity |-> Session(sid).last_activity] :
                                         sid \in Live }]]

-----------------------------------------------------------------------------
NextChat ==
    \/ \E b \in ChatBrands, c \in ClientOutcomes : initialize_chat(b, c)
    \/ \E sid \in SessionQueryIds, t \in ChatTexts : chat_request(sid, t)
    \/ \E r \in pending : send_chat_message(r)
    \/ \E o \in BackendOutcomes : chat_image_returns(o)
    \/ \E o \in BackendOutcomes : chat_completion_returns(o)
    \/ \E sid \in SessionQueryIds, m \in Emails : generate_chat_report(sid, m)
    \/ \E sid \in SessionQueryIds : get_chat_history(sid)
    \/ \E sid \in SessionQueryIds, e \in ExportOutcomes : end_chat_session(sid, e)
    \/ list_chat_sessions

\* The chat side alone: sessions, their messages and the reports they ask for.
SpecChat == Init /\ [][NextChat]_vars

-----------------------------------------------------------------------------
(* The job endpoints that only read, and the two sides together *)

\* GET /api/jobs
list_genome_jobs ==
    /\ LoopIdle
    /\ UNCHANGED <<job_vars, chat_vars>>
    /\ resp' = IF \E j \in Created : "status" \notin DOMAIN Job(j)
               THEN [op |-> "jobs", code |-> 500, body |-> [detail |-> "KeyError"]]
               ELSE [op |-> "jobs", code |-> 200,
                     body |-> [total_jobs |-> Cardinality(Created),
                               jobs |-> { [job_id |-> j,
                                           status |-> Job(j)["status"],
                                           brand |-> Get(Job(j), "brand_input", <<>>),
                                           created_at |-> Get(Job(j), "created_at", None)] :
                                          j \in Created }]]

\* GET /api/download/report/{job_id}; on_disk is os.path.exists(pdf_path).
download_report(job_id, on_disk) ==
    /\ LoopIdle
    /\ UNCHANGED <<job_vars, chat_vars>>
    /\ resp' = IF job_id \notin Created
               THEN [op |-> "download", code |-> 404, body |-> [detail |-> "Job not found"]]
               ELSE IF Get(Job(job_id), "pdf_path", None) = None \/ ~on_disk
               THEN [op |-> "download", code |-> 404, body |-> [detail |-> "Report not found"]]
               ELSE [op |-> "download", code |-> 200,
                     body |-> [path |-> Job(job_id)["pdf_path"],
                               filename |-> <<"marketing_genome_", job_id, ".pdf">>]]

\* brand_handle values that meet the jobs: the brand of the submitted jobs with
\* a capital, and a brand nobody submitted.
ContextBrands == { <<"A", "c", "m", "e">>, <<"z", "e", "d">> }

\* The job pipeline together with the chat endpoints that read or write the
\* registry: the sessions here exchange no messages, and the collaborators of
\* a run answer, except that a stage may raise.
NextBridge ==
    \/ \E b \in Brands, m \in Emails : analyze_brand(b, "auto", m)
    \/ \E id \in QueryIds : get_genome_status(id)
    \/ list_genome_jobs
    \/ \E id \in QueryIds, d \in BOOLEAN : download_report(id, d)
    \/ \E j \in JobIds : run_start(j)
    \/ \E j \in JobIds : run_init(j)
    \/ \E j \in JobIds : stage_collect(j, "page")
    \/ \E j \in JobIds : stage_brand_dna(j)
    \/ \E j \in JobIds : stage_competitors(j)
    \/ \E j \in JobIds : stage_roadmap(j)
    \/ \E j \in JobIds : stage_content(j)
    \/ \E j \in JobIds : stage_report(j)
    \/ \E j \in JobIds : stage_raises(j)
    \/ \E j \in JobIds : stage_deliver(j, "sent")
    \/ \E j \in JobIds : notify_error(j, "sent")
    \/ \E b \in ContextBrands : initialize_chat(b, "client")
    \/ \E sid \in SessionQueryIds, m \in Emails : generate_chat_report(sid, m)

SpecBridge == Init /\ [][NextBridge]_vars

\* The operations a client of the chat can reach the registry with: the two
\* that create jobs, and the chat turns of sessions opened for any handle a
\* form can carry.  No job runs here.
NextFront ==
    \/ \E b \in Brands, m \in Emails : analyze_brand(b, "auto", m)
    \/ \E b \in Brands : initialize_chat(b, "client")
    \/ \E sid \in SessionQueryIds, t \in ChatTexts : chat_request(sid, t)
    \/ \E r \in pending : send_chat_message(r)
    \/ \E o \in BackendOutcomes : chat_image_returns(o)
    \/ \E o \in BackendOutcomes : chat_completion_returns(o)
    \/ \E sid \in SessionQueryIds, m \in Emails : generate_chat_report(sid, m)

SpecFront == Init /\ [][NextFront]_vars

-----------------------------------------------------------------------------
(* The job pipeline: properties *)

Status(j) == Job(j)["status"]

\* The run of job j has started and has not ended.
InProgress(j) == tasks[j].pc \in InRun

\* C1: a job's status goes Pending, Processing, then Completed or Failed: a new job
\* is Pending, every change of status is one of these steps (so none leaves a
\* terminal status or skips Processing), and a run that started is never scheduled
\* again.
C1_StatusLifecycle ==
    [][ /\ \A j \in DOMAIN genome_jobs' \ Created :
              genome_jobs'[j]["status"] = PENDING /\ tasks'[j].pc = "scheduled"
        /\ \A j \in Created :
              /\ j \in DOMAIN genome_jobs'
              /\ genome_jobs'[j]["status"] # Status(j) =>
                    \/ Status(j) = PENDING /\ genome_jobs'[j]["status"] = PROCESSING
                    \/ Status(j) = PROCESSING /\ genome_jobs'[j]["status"] \in {COMPLETED, FAILED}
              /\ (Status(j) = PENDING) = (tasks[j].pc = "scheduled")
              /\ tasks[j].pc # "scheduled" => tasks'[j].pc # "scheduled" ]_vars

C1_Witness ==
    \E a, b \in Created : Status(a) = COMPLETED /\ Status(b) = FAILED

\* C2: when a stage raises, the job becomes Failed with the error's text in its
\* message, no stage result is bound by that step, and from the except clause the
\* run only goes on to its end: no later stage is entered.
C2_FailureStopsRun ==
    [][ \A j \in Created :
          /\ (tasks[j].pc # "notify" /\ tasks'[j].pc = "notify") =>
                /\ tasks[j].pc \in {"init"} \cup Range(Stages)
                /\ tasks'[j].raised_at = tasks[j].pc
                /\ tasks'[j].e # "none"
                /\ genome_jobs'[j]["status"] = FAILED
                /\ genome_jobs'[j]["message"] = <<"Error generating genome: ", tasks'[j].e>>
                /\ tasks'[j].locals \cap Range(StageLocal) = tasks[j].locals \cap Range(StageLocal)
                /\ tasks[j].pc \in Range(Stages) =>
                      tasks[j].locals \cap Range(StageLocal) = LocalsBefore(StageNo(tasks[j].pc))
          /\ tasks[j].pc = "notify" =>
                tasks'[j].pc \in {"notify", "done"} /\ genome_jobs'[j]["status"] = FAILED
          /\ tasks[j].pc = "done" => tasks'[j].pc = "done" ]_vars

C2_Witness ==
    \E j \in Created :
        /\ tasks[j].pc = "notify" /\ tasks[j].raised_at = "competitors"
        /\ Status(j) = FAILED /\ tasks[j].e \in Range(Job(j)["message"])

\* The keys under which a job record would hold the results of stages 1 to 6.
StageResultKey == <<"brand_data", "brand_dna", "competitors", "growth_roadmap",
                    "content_strategy", "pdf_path">>

\* The stages whose result the record of job j holds.
StageResults(j) == { k \in DOMAIN StageResultKey : StageResultKey[k] \in DOMAIN Job(j) }

\* C3: after stage k failed, the job record is Failed and holds the results of
\* stages 1..k-1 and of no other stage.
C3_PartialResultsKept ==
    \A j \in Created :
        (tasks[j].pc = "notify" /\ tasks[j].raised_at \in Range(Stages)) =>
            /\ Status(j) = FAILED
            /\ StageResults(j) = 1..(StageNo(tasks[j].raised_at) - 1)

\* C4: a Completed job has its artifact location.
C4_CompletedHasArtifact ==
    \A j \in Created : Status(j) = COMPLETED => Get(Job(j), "pdf_url", None) # None

C4_Witness ==
    \E j \in Created : Status(j) = COMPLETED /\ StatusResponse(j).body.pdf_url # None

\* The report mail of job j: the one that carries its report.
ReportMails(j) ==
    { i \in DOMAIN outbox :
        outbox[i].kind = "report" /\ outbox[i].attachment = Job(j)["pdf_path"] }

\* C5: a job whose stages 1 to 6 succeeded (its record has the rendered report) is
\* never Failed and has its artifact location; when its run has ended it is
\* Completed, and email_sent tells whether the SMTP server took the report mail.
C5_DeliveryOutcomeIsAFlag ==
    \A j \in Created :
        "pdf_path" \in DOMAIN Job(j) =>
            /\ Status(j) # FAILED
            /\ Get(Job(j), "pdf_url", None) # None
            /\ tasks[j].pc = "deliver" => Status(j) = PROCESSING /\ ReportMails(j) = {}
            /\ tasks[j].pc # "deliver" =>
                  /\ tasks[j].pc = "done"
                  /\ Status(j) = COMPLETED
                  /\ Cardinality(ReportMails(j)) = 1
                  /\ \A i \in ReportMails(j) :
                        /\ outbox[i].to = Job(j)["email"]
                        /\ Job(j)["email_sent"] = (outbox[i].smtp = "sent")

C5_Witness ==
    \E a, b \in Created :
        /\ Status(a) = COMPLETED /\ Job(a)["email_sent"] = FALSE
        /\ \E i \in ReportMails(a) : outbox[i].smtp = "smtp_error"
        /\ Status(b) = COMPLETED /\ Job(b)["email_sent"] = TRUE

\* C6: every Failed job is in, or past, the failure notification; the
\* notification hands one error mail for the job's address to the mail service
\* when the service was imported, and whatever its outcome it leaves the job
\* record, with status Failed and the original reason, as it was; nothing
\* changes the record afterwards.
C6_NotificationIsSwallowed ==
    /\ [](\A j \in Created :
            Status(j) = FAILED =>
                /\ tasks[j].pc \in {"notify", "done"}
                /\ Len(Job(j)["message"]) = 2
                /\ Job(j)["message"][1] = "Error generating genome: ")
    /\ [][ \A j \in Created :
             /\ Status(j) = FAILED => genome_jobs'[j] = Job(j)
             /\ (tasks[j].pc = "notify" /\ tasks'[j].pc # "notify") =>
                   /\ tasks'[j].pc = "done"
                   /\ Job(j)["message"] = <<"Error generating genome: ", tasks[j].e>>
                   /\ IF "EmailService" \in tasks[j].locals
                      THEN /\ Len(outbox') = Len(outbox) + 1
                           /\ outbox'[Len(outbox')].kind = "error"
                           /\ outbox'[Len(outbox')].to = Job(j)["email"]
                      ELSE outbox' = outbox ]_vars

C6_Witness ==
    \E a, b \in Created :
        /\ Status(a) = FAILED /\ tasks[a].pc = "done"
        /\ \E i \in DOMAIN outbox :
              /\ outbox[i].kind = "error" /\ outbox[i].to = Job(a)["email"]
              /\ outbox[i].smtp = "smtp_error"
        /\ Status(b) = FAILED /\ tasks[b].pc = "done"
        /\ Job(b)["message"][2] = "ImportError"

\* C7: while the run of a job is in progress, a status query for that job can be
\* served, and it returns Processing with the label of the stage in progress.
C7_StatusServedDuringRun ==
    \A j \in Created :
        InProgress(j) /\ Status(j) = PROCESSING =>
            /\ ENABLED get_genome_status(j)
            /\ StatusResponse(j).body.status = PROCESSING
            /\ tasks[j].pc \in Range(Stages) =>
                  StatusResponse(j).body.message = StageLabel[StageNo(tasks[j].pc)]

WellFormedStatus(id, body) ==
    /\ DOMAIN body = {"job_id", "status", "message", "brand_input", "pdf_url",
                      "email_sent", "created_at", "completed_at"}
    /\ body.job_id = id
    /\ body.status \in JobStatus
    /\ Len(body.message) > 0
    /\ body.brand_input \in Brands
    /\ body.pdf_url \in {None, <<"/api/download/report/", id>>}
    /\ body.email_sent \in BOOLEAN
    /\ body.created_at \in 1..now
    /\ body.completed_at = None \/ (Len(body.completed_at) = 1 /\ body.completed_at[1] \in 1..now)

\* C9: in every state, the status query of an identifier outside the registry
\* answers 404, and that of a job of the registry answers 200 with a well-formed
\* status object showing the job's status and message; a status response sent is
\* one of these.
C9_StatusQueryTotal ==
    /\ \A id \in QueryIds :
          LET r == StatusResponse(id)
          IN  IF id \in Created
              THEN /\ r.code = 200
                   /\ WellFormedStatus(id, r.body)
                   /\ r.body.status = Status(id)
                   /\ r.body.message = Job(id)["message"]
              ELSE r.code = 404
    /\ resp.op = "status" => resp.code \in {200, 404}

C9_Witness ==
    /\ resp.op = "status" /\ resp.code = 200
    /\ resp.body.status = FAILED
    /\ resp.body.pdf_url = None
    /\ \E id \in QueryIds : id \notin Created /\ StatusResponse(id).code = 404

\* C10: while the run of job a is in progress, the run of a scheduled job b can
\* start.
C10_RunsInParallel ==
    \A a, b \in Created :
        (a # b /\ InProgress(a) /\ tasks[b].pc = "scheduled") => ENABLED run_start(b)

-----------------------------------------------------------------------------
(* Chat: properties *)

\* The send_chat_message call in progress, and its session.
Call == chat_call[1]

CallSession == chat_call[1].req.session_id

\* The last step answered a chat request with a reply.
Replied == resp.op = "chat" /\ resp.code = 200

\* The session identifiers that were handed out and are live no more.
Ended == (1..session_count) \ Live

\* C11: when a sendMessage call returns its reply while another call on the
\* same session is in flight, the session's history ends with the call's user
\* message followed directly by the call's assistant message, the one it
\* returned: the two calls' entries are not interleaved and none is missing.
C11_ConcurrentCallsKeepPairs ==
    (Replied /\ \E p \in pending : p.session_id = resp.req.session_id) =>
        LET h == History(resp.req.session_id)
        IN  /\ Len(h) >= 2
            /\ h[Len(h) - 1].role = "user"
            /\ h[Len(h) - 1].content = resp.req.message
            /\ h[Len(h)].role = "assistant"
            /\ h[Len(h)].content = resp.body.response

\* C12: while a sendMessage call on one session is suspended in its backend
\* call, a request in flight for another live session can be taken up.
C12_SessionsDoNotBlockEachOther ==
    \A r \in pending :
        (chat_call # None /\ r.session_id \in Live /\ r.session_id # CallSession)
            => ENABLED send_chat_message(r)

\* C13: between calls, a session's history has two entries for every reply
\* sendMessage returned on it, a user entry followed by an assistant entry.
C13_TwoEntriesPerReply ==
    \A sid \in Live :
        (chat_call = None \/ CallSession # sid) =>
            /\ Len(History(sid)) = 2 * replies[sid]
            /\ \A i \in DOMAIN History(sid) :
                   History(sid)[i].role = IF i % 2 = 1 THEN "user" ELSE "assistant"

\* C14: whatever the completion call does, the handler answers the request
\* with a reply that is not empty, the session stays live, the history it had
\* is still there entry for entry, and the loop is free for the next call; a
\* request in flight for the session can then be taken up.
C14_BackendFailureStillReplies ==
    /\ [](\A r \in pending :
             (Replied /\ resp.req.session_id = r.session_id)
                 => ENABLED send_chat_message(r))
    /\ [][(InCall("chat.completions.create") /\ chat_call' = None) =>
             /\ resp'.op = "chat" /\ resp'.code = 200
             /\ resp'.req = Call.req
             /\ Len(resp'.body.response) > 0
             /\ CallSession \in DOMAIN chat_sessions'
             /\ SubSeq(chat_sessions'[CallSession].assistant.conversation_history,
                       1, Len(History(CallSession))) = History(CallSession)]_vars

\* A reply to a call whose completion failed, on a session that was then used
\* again and answered.
C14_Witness ==
    /\ Replied
    /\ resp.body.action_type # "error"
    /\ \E i \in DOMAIN History(resp.req.session_id) :
           /\ i + 1 \in DOMAIN History(resp.req.session_id)
           /\ History(resp.req.session_id)[i].role = "user"
           /\ History(resp.req.session_id)[i + 1].role = "user"

\* C15: no response to a chat request carries the error text of the backend.
C15_NoRawErrorInReply ==
    resp.op = "chat" =>
        /\ "response" \in DOMAIN resp.body => ApiErrorText \notin Range(resp.body.response)
        /\ "detail" \in DOMAIN resp.body => ApiErrorText \notin Range(resp.body.detail)

-----------------------------------------------------------------------------
(* The classifier on its own: one session, one request in flight whose text *)
(* is drawn from the probes below, and the steps of send_chat_message.      *)

\* One phrase of each list of _detect_action_type, in the order of its
\* branches, and a word that is in none.
Probes == <<
    <<"i", "m", "a", "g", "e", " ", "o", "f">>,
    <<"s", "e", "n", "d", " ", "r", "e", "p", "o", "r", "t">>,
    <<"w", "r", "i", "t", "e", " ", "p", "o", "s", "t">>,
    <<"r", "i", "v", "a", "l">>,
    <<"f", "o", "r", "e", "c", "a", "s", "t">>,
    <<"p", "e", "r", "s", "o", "n", "a">>,
    <<"p", "l", "a", "n">>,
    <<"h", "e", "l", "l", "o">> >>

UpperChar(c) ==
    IF \E i \in DOMAIN LowerChars : LowerChars[i] = c
    THEN UpperChars[CHOOSE i \in DOMAIN LowerChars : LowerChars[i] = c]
    ELSE c

\* str.upper()
upper(s) == [i \in DOMAIN s |-> UpperChar(s[i])]

\* Every two probes in a row, as typed and in capitals.
ClassifierInputs ==
    LET pairs == { Probes[i] \o <<" ">> \o Probes[j] : i, j \in DOMAIN Probes }
    IN  pairs \cup { upper(m) : m \in pairs }

InitClassify ==
    /\ genome_jobs = <<>>
    /\ tasks = <<>>
    /\ running = {}
    /\ outbox = <<>>
    /\ now = 1
    /\ resp = NoResponse
    /\ \E b \in ChatBrands :
           chat_sessions = (1 :> [session_id |-> 1, brand_handle |-> b,
                                  assistant |-> PixaroBrandAssistant(b, None),
                                  created_at |-> 1, last_activity |-> 1])
    /\ session_count = 1
    /\ \E m \in ClassifierInputs : pending = {[session_id |-> 1, message |-> m]}
    /\ requests = 1
    /\ chat_call = None
    /\ replies = (1 :> 0)
    /\ files = <<>>

NextClassify ==
    \/ \E r \in pending : send_chat_message(r)
    \/ \E o \in BackendOutcomes : chat_image_returns(o)
    \/ \E o \in BackendOutcomes : chat_completion_returns(o)

SpecClassify == InitClassify /\ [][NextClassify]_vars

\* The eight categories of a message.
ActionCategories ==
    {"generate_image", "generate_report", "generate_content", "competitor_analysis",
     "predictive_analysis", "audience_insights", "campaign_creation", "general_chat"}

\* The order the claim gives to the seven rules that have phrases.
Cascade == <<
    [phrases |-> ImagePhrases, category |-> "generate_image"],
    [phrases |-> ReportPhrases, category |-> "generate_report"],
    [phrases |-> ContentPhrases, category |-> "generate_content"],
    [phrases |-> CompetitorPhrases, category |-> "competitor_analysis"],
    [phrases |-> PredictivePhrases, category |-> "predictive_analysis"],
    [phrases |-> AudiencePhrases, category |-> "audience_insights"],
    [phrases |-> CampaignPhrases, category |-> "campaign_creation"] >>

SameLetter(a, b) == a = b \/ UpperChar(a) = b \/ a = UpperChar(b)

\* The phrase is in the text, whatever the case of the text's letters.
Says(text, phrase) ==
    \E i \in 0..(Len(text) - Len(phrase)) :
        \A k \in 1..Len(phrase) : SameLetter(text[i + k], phrase[k])

Matches(text, k) == \E phrase \in Cascade[k].phrases : Says(text, phrase)

\* C16: the category of a message is that of the first rule, in the order
\* image, report, content, competitor, predictive, audience, campaign, one of
\* whose phrases the message contains in any case of its letters; a message
\* that contains none is general chat.
C16_FirstMatchWins ==
    chat_call # None =>
        LET text == Call.req.message
            first == { k \in DOMAIN Cascade :
                         Matches(text, k) /\ \A i \in 1..(k - 1) : ~Matches(text, i) }
        IN  /\ \A k \in first : Call.action_type = Cascade[k].category
            /\ first = {} => Call.action_type = "general_chat"

\* A message in capitals with an image phrase and a competitor word, classified
\* as an image request.
C16_Witness ==
    /\ chat_call # None
    /\ Matches(Call.req.message, 1)
    /\ Matches(Call.req.message, 4)
    /\ Call.req.message # lower(Call.req.message)
    /\ Call.action_type = "generate_image"

\* C17: every reply carries the category the classifier gives to the text of
\* its request, one of the eight categories.
C17_ReplyCarriesCategory ==
    Replied =>
        /\ resp.body.action_type = _detect_action_type(resp.req.message)
        /\ resp.body.action_type \in ActionCategories

\* C18: a chat request for an identifier that is not live is answered with
\* not-found; no backend call is entered, and the sessions with their histories
\* and activity stamps, the jobs and their tasks stay as they are.
C18_UnknownSessionChangesNothing ==
    [][\A r \in pending :
          (r \notin pending' /\ r.session_id \notin Live) =>
              /\ resp'.op = "chat" /\ resp'.code = 404 /\ resp'.req = r
              /\ chat_call' = None
              /\ chat_sessions' = chat_sessions
              /\ genome_jobs' = genome_jobs
              /\ tasks' = tasks]_vars

\* A not-found answer to a chat request while a session with a history and a
\* job exist.
C18_Witness ==
    /\ resp.op = "chat" /\ resp.code = 404
    /\ Created # {}
    /\ \E sid \in Live : Len(History(sid)) > 0

SessionOps == {"chat", "history", "report", "end"}

\* C19: a successful terminate removes the session; from then on its
\* identifier is never live again, every message, history request, report
\* request and terminate for it is answered with not-found and changes no
\* session, and the list of sessions does not show it.
C19_EndedSessionIsGone ==
    [][/\ \A sid \in Ended : sid \notin DOMAIN chat_sessions'
       /\ (resp'.op = "end" /\ resp'.code = 200) =>
              /\ resp'.req.session_id \in Live
              /\ resp'.req.session_id \notin DOMAIN chat_sessions'
       /\ (resp'.op \in SessionOps /\ resp'.req.session_id \in Ended) =>
              /\ resp'.code = 404
              /\ chat_sessions' = chat_sessions
       /\ resp'.op = "list" =>
              \A s \in resp'.body.sessions : s.session_id \notin Ended]_vars

\* A message for a session that was terminated is answered with not-found.
C19_Witness ==
    /\ resp.op = "chat" /\ resp.code = 404
    /\ resp.req.session_id \in Ended

\* C20: a terminate of a live session succeeds and removes the session
\* whatever the export does; its export reference is empty or names a file
\* that was written.
C20_TerminateSurvivesExportFailure ==
    [][\A sid \in Live :
          (resp'.op = "end" /\ resp'.req.session_id = sid) =>
              /\ resp'.code = 200
              /\ resp'.body.success
              /\ sid \notin DOMAIN chat_sessions'
              /\ \/ resp'.body.export_path = None /\ files' = files
                 \/ /\ resp'.body.export_path # None
                    /\ resp'.body.export_path[1] \in DOMAIN files']_vars

\* A terminate whose export failed: success, no export reference, session gone.
C20_Witness ==
    /\ resp.op = "end" /\ resp.code = 200
    /\ resp.body.export_path = None
    /\ resp.req.session_id \notin Live
    /\ files = <<>>

-----------------------------------------------------------------------------
(* Sessions and the registry: properties *)

\* C21: initialize stores a session under an identifier that no session has
\* or had, with an empty history, and leaves every other session as it is; a
\* session's record changes or goes only in a step of a message or a terminate
\* for that session, so such a step leaves every other session as it is.
C21_SessionsAreIndependent ==
    [][/\ (resp'.op = "init" /\ resp'.code = 200) =>
              /\ resp'.body.session_id \notin Live \cup Ended
              /\ DOMAIN chat_sessions' = Live \cup {resp'.body.session_id}
              /\ chat_sessions'[resp'.body.session_id].assistant.conversation_history = <<>>
              /\ \A sid \in Live : chat_sessions'[sid] = chat_sessions[sid]
       /\ \A sid \in Live :
              (sid \notin DOMAIN chat_sessions' \/ chat_sessions'[sid] # chat_sessions[sid]) =>
                  \/ chat_call' # None /\ chat_call'[1].req.session_id = sid
                  \/ chat_call # None /\ CallSession = sid
                  \/ resp'.op = "end" /\ resp'.req.session_id = sid]_vars

\* Two live sessions of one brand: one was just answered, the other has an
\* empty history.
C21_Witness ==
    /\ Replied
    /\ \E a, b \in Live :
           /\ a # b
           /\ Session(a).brand_handle = Session(b).brand_handle
           /\ a = resp.req.session_id
           /\ Len(History(a)) = 2
           /\ History(b) = <<>>

\* C25: in every step a session that stays live keeps the entries of its
\* history, in their order, as the beginning of its history.
C25_HistoryIsAppendOnly ==
    [][\A sid \in Live \cap DOMAIN chat_sessions' :
          /\ Len(chat_sessions'[sid].assistant.conversation_history) >= Len(History(sid))
          /\ SubSeq(chat_sessions'[sid].assistant.conversation_history, 1, Len(History(sid)))
                 = History(sid)]_vars

\* A history that grew over two calls.
C25_Witness ==
    \E sid \in Live : Len(History(sid)) = 4

\* The texts are the same when the case of their letters is ignored.
SameText(a, b) == Len(a) = Len(b) /\ \A i \in DOMAIN a : SameLetter(a[i], b[i])

\* The last step answered an initialize with a session.
Initialized == resp.op = "init" /\ resp.code = 200

\* C22: an initialize answers has_context true exactly when the registry holds
\* a Completed job whose brand_input is the handle, the case of the letters
\* ignored.
C22_ContextIffCompletedJob ==
    Initialized =>
        (resp.body.has_context <=>
            \E j \in Created :
                /\ Status(j) = COMPLETED
                /\ SameText(Job(j)["brand_input"], resp.body.brand_handle))

\* A session with context for a handle written with another case than the
\* completed job's brand, while a job of the brand is not completed.
C22_Witness ==
    /\ Initialized
    /\ resp.body.has_context
    /\ \E j, k \in Created :
           /\ Status(j) = COMPLETED
           /\ Job(j)["brand_input"] # resp.body.brand_handle
           /\ SameText(Job(j)["brand_input"], resp.body.brand_handle)
           /\ Status(k) # COMPLETED

\* C23: the job an initialize takes the context from is, of the Completed jobs
\* of the brand, one that was completed last.
C23_ContextFromLatestJob ==
    (Initialized /\ resp.body.has_context) =>
        \A k \in ContextJobs(resp.body.brand_handle) :
            Job(ContextJob(resp.body.brand_handle))["completed_at"][1]
                >= Job(k)["completed_at"][1]

\* C24: a report request of a live session adds exactly one job, Pending, for
\* the session's brand_handle and the address of the request, with its run
\* scheduled and not started, leaves the other jobs as they are and answers
\* with the job's identifier; the status of a job that came from a chat goes
\* from Pending to Processing to Completed or Failed like any other.
C24_ChatReportCreatesPendingJob ==
    [][/\ (resp'.op = "report" /\ resp'.code = 200) =>
              /\ resp'.req.session_id \in Live
              /\ resp'.body.job_id \notin Created
              /\ DOMAIN genome_jobs' = Created \cup {resp'.body.job_id}
              /\ \A j \in Created : genome_jobs'[j] = genome_jobs[j] /\ tasks'[j] = tasks[j]
              /\ genome_jobs'[resp'.body.job_id]["status"] = PENDING
              /\ genome_jobs'[resp'.body.job_id]["brand_input"]
                     = Session(resp'.req.session_id).brand_handle
              /\ genome_jobs'[resp'.body.job_id]["email"] = resp'.req.email
              /\ tasks'[resp'.body.job_id] = NewTask
              /\ running' = running
       /\ \A j \in Created :
              ("from_chat" \in DOMAIN Job(j) /\ genome_jobs'[j]["status"] # Status(j)) =>
                  \/ /\ Status(j) = PENDING
                     /\ genome_jobs'[j]["status"] = PROCESSING
                     /\ tasks[j].pc = "scheduled"
                  \/ /\ Status(j) = PROCESSING
                     /\ genome_jobs'[j]["status"] \in {COMPLETED, FAILED}]_vars

\* A job that came from a chat and was completed, with its report.
C24_Witness ==
    \E j \in Created :
        /\ "from_chat" \in DOMAIN Job(j)
        /\ Job(j)["brand_input"] = Session(Job(j)["chat_session_id"]).brand_handle
        /\ Status(j) = COMPLETED
        /\ Job(j)["pdf_url"] # None

\* A job that is Pending or Processing and none of whose stages has returned.
NoStageCompleted(j) == tasks[j].pc \in {"scheduled", "init", "collect"}

\* The labels a job gets before its stage 1 has returned: at creation by
\* submit or by a chat report request, at the start of the run, for stage 1.
EarlyLabels ==
    { <<"Analysis starting...">>, <<"Generating report from chat session...">>,
      <<"Analyzing brand data...">>, StageLabel[1] }

\* C26, as stated: a status query answered before any stage of the job has
\* completed returns the label of stage 1, the collection of data.
C26_LabelIsCollection ==
    (resp.op = "status" /\ resp.code = 200 /\ NoStageCompleted(resp.body.job_id)) =>
        resp.body.message = StageLabel[1]

\* C26, amended: while a job is Pending or Processing and none of its stages
\* has completed, a status query returns the label the job was created with,
\* the label of the start of the run or the label of stage 1, and never the
\* label of a later stage.
C26_LabelIsEarly ==
    /\ \A j \in Created :
           NoStageCompleted(j) =>
               /\ StatusResponse(j).code = 200
               /\ StatusResponse(j).body.message \in EarlyLabels
               /\ \A k \in 2..Len(StageLabel) : StatusResponse(j).body.message # StageLabel[k]
    /\ (resp.op = "status" /\ resp.code = 200 /\ NoStageCompleted(resp.body.job_id)) =>
           resp.body.message \in EarlyLabels

\* A status query answered for a pending job that came from a chat.
C26_Witness ==
    /\ resp.op = "status" /\ resp.code = 200
    /\ NoStageCompleted(resp.body.job_id)
    /\ "from_chat" \in DOMAIN Job(resp.body.job_id)

\* C27: stage 1 ends by going on to stage 2 with a data object, the job still
\* Processing, whatever the web site did; no run fails in stage 1.
C27_CollectionFailureIsNotFatal ==
    [][\A j \in Created :
          /\ (tasks[j].pc = "collect" /\ tasks'[j].pc # "collect") =>
                 /\ tasks'[j].pc = "brand_dna"
                 /\ tasks'[j].brand_data # None
                 /\ "brand_name" \in DOMAIN tasks'[j].brand_data
                 /\ genome_jobs'[j]["status"] = PROCESSING
          /\ tasks'[j].raised_at # "collect"]_vars

\* A run in stage 2 whose scrape failed.
C27_Witness ==
    \E j \in Created :
        /\ tasks[j].pc = "brand_dna"
        /\ Status(j) = PROCESSING
        /\ "error" \in DOMAIN tasks[j].brand_data.website_data

\* C28: a job stays in the registry with its identifier, brand_input,
\* input_type and email, and a step changes its record only when the job's
\* own run holds the loop before or after the step.
C28_OnlyOwnRunWritesJob ==
    [][\A j \in Created :
          /\ j \in DOMAIN genome_jobs'
          /\ genome_jobs'[j]["job_id"] = Job(j)["job_id"]
          /\ genome_jobs'[j]["brand_input"] = Job(j)["brand_input"]
          /\ genome_jobs'[j]["input_type"] = Job(j)["input_type"]
          /\ genome_jobs'[j]["email"] = Job(j)["email"]
          /\ genome_jobs'[j] # Job(j) => (j \in running \/ j \in running')]_vars

\* A download served for a completed job while a session and another job exist.
C28_Witness ==
    /\ resp.op = "download" /\ resp.code = 200
    /\ Live # {}
    /\ Cardinality(Created) = 2

\* C29: every job in the registry is Completed or Failed in the end.
C29_EveryJobEnds ==
    \A j \in JobIds :
        (j \in Created) ~> (j \in Created /\ Status(j) \in {COMPLETED, FAILED})

\* Two jobs, one completed and one failed in stage 6, both runs over.
C29_Witness ==
    \E a, b \in Created :
        /\ Status(a) = COMPLETED /\ tasks[a].pc = "done"
        /\ Status(b) = FAILED /\ tasks[b].pc = "done"
        /\ LoopIdle

\* C30: a job has a pdf_url only when its stage 6 has returned, that is in
\* stage 7 or once Completed; a Failed job has none.
C30_NoArtifactBeforeRender ==
    \A j \in Created :
        /\ Get(Job(j), "pdf_url", None) # None =>
               (tasks[j].pc = "deliver" \/ Status(j) = COMPLETED)
        /\ Status(j) = FAILED => StatusResponse(j).body.pdf_url = None

\* A job that failed in stage 6, without a pdf_url.
C30_Witness ==
    \E j \in Created :
        /\ tasks[j].pc = "notify" /\ tasks[j].raised_at = "report"
        /\ Status(j) = FAILED
        /\ Job(j)["pdf_url"] = None

-----------------------------------------------------------------------------
(* The order of the stages, the replies and the exports: properties *)

\* The position a run is in before it enters stage k.
Before(k) == IF k = 1 THEN "init" ELSE Stages[k - 1]

\* C31: a run enters stage k only from stage k-1 (stage 1 from the start of the
\* run), with the results of stages 1 to k-1 bound; it enters a run only from
\* the schedule, so no stage is entered twice; and a job has one run, which is
\* in one position, and only the run that holds the loop moves.
C31_StagesInOrder ==
    [][\A j \in Created :
          tasks'[j].pc # tasks[j].pc =>
              /\ j \in running \/ j \in running'
              /\ tasks'[j].pc # "scheduled"
              /\ tasks'[j].pc = "init" => tasks[j].pc = "scheduled"
              /\ \A k \in DOMAIN Stages :
                     tasks'[j].pc = Stages[k] =>
                         /\ tasks[j].pc = Before(k)
                         /\ LocalsBefore(k) \subseteq tasks'[j].locals
                         /\ StageLocal[k] \notin tasks'[j].locals]_vars

\* A run in stage 7 with the results of stages 1 to 6, while the other job
\* waits for the loop.
C31_Witness ==
    \E a, b \in Created :
        /\ tasks[a].pc = "deliver"
        /\ LocalsBefore(7) \subseteq tasks[a].locals
        /\ tasks[b].pc = "scheduled"

\* C32: the context of a session that was seeded from a completed job holds
\* the brand DNA and the competitor data of that job, neither of them empty.
C32_ContextHoldsStageResults ==
    \A sid \in Live :
        LET brand_context == Session(sid).assistant.brand_context
        IN  brand_context # None =>
                /\ brand_context[1].brand_dna # <<>>
                /\ brand_context[1].competitors # <<>>

\* The entries of a history that carry an image_url.
ImageEntries(h) == { i \in DOMAIN h : "image_url" \in DOMAIN h[i] }

\* C33: an entry with an image_url is an assistant entry, its image_url is not
\* null, and it answers a user entry classified as an image request; a reply
\* has an image_url exactly when the last entry of its session has one, the
\* same; and an entry with an image_url is appended only by the step in which
\* the image call returns an image, which is the step whose reply has one.
C33_ImageOnlyOnImageTurns ==
    /\ [](\A sid \in Live : \A i \in ImageEntries(History(sid)) :
             /\ History(sid)[i].role = "assistant"
             /\ History(sid)[i].image_url # None
             /\ i > 1
             /\ History(sid)[i - 1].role = "user"
             /\ _detect_action_type(History(sid)[i - 1].content) = "generate_image")
    /\ [](Replied =>
             LET h == History(resp.req.session_id)
             IN  IF resp.body.image_url # None
                 THEN Len(h) \in ImageEntries(h) /\ resp.body.image_url = Some(h[Len(h)].image_url)
                 ELSE Len(h) \notin ImageEntries(h))
    /\ [][\A sid \in Live :
              (sid \in DOMAIN chat_sessions' /\
               ImageEntries(chat_sessions'[sid].assistant.conversation_history)
                   # ImageEntries(History(sid))) =>
                  /\ InCall("images.generate")
                  /\ chat_call' = None
                  /\ resp'.op = "chat" /\ resp'.code = 200
                  /\ resp'.req.session_id = sid
                  /\ resp'.body.image_url # None]_vars

\* A reply without an image_url to a small-talk message, on a session whose
\* first turn produced an image.
C33_Witness ==
    /\ Replied
    /\ resp.body.image_url = None
    /\ LET h == History(resp.req.session_id)
       IN  /\ Len(h) = 4
           /\ ImageEntries(h) = {2}
           /\ h[4].role = "assistant"

\* C34: in a session's history no two entries in a row have the same role, and
\* the first entry is the user's.
C34_RolesAlternate ==
    \A sid \in Live :
        LET h == History(sid)
        IN  /\ Len(h) > 0 => h[1].role = "user"
            /\ \A i \in 1..(Len(h) - 1) : h[i].role # h[i + 1].role

\* A step of a sendMessage call: the handler takes a request up, or a backend
\* call of the handler returns.
SendStep == (pending' # pending /\ pending' \subseteq pending) \/ chat_call # None

\* C35: no step of a sendMessage call changes the registry or the tasks,
\* whatever the category of its message; a step that adds a job is a submit or
\* a chat report request answered with success, it adds one job and leaves the
\* records of the others as they are.
C35_ChatTurnLeavesRegistry ==
    [][/\ SendStep => genome_jobs' = genome_jobs /\ tasks' = tasks
       /\ DOMAIN genome_jobs' # Created =>
              /\ resp'.op \in {"analyze", "report"} /\ resp'.code = 200
              /\ DOMAIN genome_jobs' = Created \cup {resp'.body.job_id}
              /\ \A j \in Created : genome_jobs'[j] = Job(j)]_vars

\* A reply to a report request with the flag set, while the registry holds
\* one job of a submit and one of a chat report request.
C35_Witness ==
    /\ Replied
    /\ resp.body.action_type = "generate_report"
    /\ resp.body.needs_report
    /\ \E a, b \in Created :
           "from_chat" \in DOMAIN Job(a) /\ "from_chat" \notin DOMAIN Job(b)

\* C36: every job in the registry has a brand_input of at least 3 characters,
\* and a submit that was refused left the registry as it was.
C36_NoShortBrandInRegistry ==
    /\ [](\A j \in Created : Len(Job(j)["brand_input"]) >= 3)
    /\ [][(resp'.op = "analyze" /\ resp'.code = 400) => genome_jobs' = genome_jobs]_vars

\* C37: a mail is handed to the mail service only by the job that holds the
\* loop, and it is the last thing its run does, so a job has one mail at most:
\* the report mail is sent from stage 7, with the report rendered and the job
\* still Processing, and the job is Completed after it; the error mail is sent
\* for a job that is Failed and stays Failed.  A run that is over stays over.
C37_OneMailPerJob ==
    [][/\ \A j \in Created : tasks[j].pc = "done" => tasks'[j].pc = "done"
       /\ outbox' # outbox =>
              /\ Len(outbox') = Len(outbox) + 1
              /\ SubSeq(outbox', 1, Len(outbox)) = outbox
              /\ \E j \in running :
                     LET mail == outbox'[Len(outbox')]
                     IN  /\ tasks'[j].pc = "done"
                         /\ mail.to = Job(j)["email"]
                         /\ mail.kind \in {"report", "error"}
                         /\ mail.kind = "report" =>
                                /\ tasks[j].pc = "deliver"
                                /\ "pdf_path" \in DOMAIN Job(j)
                                /\ mail.attachment = Job(j)["pdf_path"]
                                /\ Status(j) = PROCESSING
                                /\ genome_jobs'[j]["status"] = COMPLETED
                         /\ mail.kind = "error" =>
                                /\ tasks[j].pc = "notify"
                                /\ Status(j) = FAILED
                                /\ genome_jobs'[j]["status"] = FAILED]_vars

\* Two runs over, one with its report mail and one, failed, with its error
\* mail that the SMTP server refused.
C37_Witness ==
    /\ Len(outbox) = 2
    /\ \E a, b \in Created :
           /\ Status(a) = COMPLETED /\ tasks[a].pc = "done"
           /\ Status(b) = FAILED /\ tasks[b].pc = "done"
           /\ \E i, k \in DOMAIN outbox :
                  /\ outbox[i].kind = "report" /\ outbox[i].attachment = Job(a)["pdf_path"]
                  /\ outbox[k].kind = "error" /\ outbox[k].smtp = "smtp_error"

\* C38: a reply's needs_report is true exactly when its action_type is the
\* report request.
C38_FlagIffReportCategory ==
    Replied => (resp.body.needs_report <=> resp.body.action_type = "generate_report")

\* C39: an export is written to a path no earlier export was written to.
C39_ExportsDoNotCollide ==
    [][\A sid \in Live :
          (sid \notin DOMAIN chat_sessions' /\ files' # files) =>
              ExportPath(Session(sid).assistant) \notin DOMAIN files]_vars

====
